---- MODULE Spec2Model ----
(***************************************************************************)
(* Model of the events page of aom-harvester (docs/app.js): the raw JSON   *)
(* document is normalized, past events are dropped, a live text query is   *)
(* applied and the remainder is sorted and grouped by month for display.   *)
(*                                                                         *)
(* JavaScript values are tagged records.  Text is a sequence of one-       *)
(* character strings so that case folding, joining, substring search and   *)
(* code-unit comparison are computed, not assumed.  Instants are hours     *)
(* since 2026-01-01T00:00Z (the page runs with a UTC wall clock); the      *)
(* calendar arithmetic is valid for the years 2026 and 2027.               *)
(***************************************************************************)
EXTENDS Integers, Sequences, FiniteSets, TLC

VARIABLES
  json,        \* the document fetchFirst returned, or Unavailable
  now,         \* Date.now() as read by boot
  pc,          \* "boot" until boot has run, then "idle"
  err,         \* what boot's catch logged: "none", "Error" or "TypeError"
  controls,    \* whether renderControls has registered the handlers
  normalized,  \* the value of normalizeEvents(json) in boot
  produced,    \* the working set as the temporal filter produced it
  events,      \* the working set the filter callback closes over
  q,           \* the value of the search box
  view         \* the content of the events element

vars == <<json, now, pc, err, controls, normalized, produced, events, q, view>>

(***************************************************************************)
(* Bound of the model: the longest events list of an input document.       *)
(***************************************************************************)
MaxEvents == 2

(***************************************************************************)
(* JavaScript values                                                       *)
(***************************************************************************)
Undef == [t |-> "undefined"]

Null == [t |-> "null"]

Str(s) == [t |-> "string", s |-> s]

Num(n) == [t |-> "number", n |-> n]

Arr(a) == [t |-> "array", a |-> a]

Obj(f) == [t |-> "object", f |-> f]

Nullish(v) == v.t \in {"undefined", "null"}

\* ToBoolean, as used by ||, ! and filter(Boolean)
Truthy(v) ==
  CASE v.t = "string" -> v.s # <<>>
    [] v.t = "number" -> v.n # 0
    [] v.t \in {"array", "object"} -> TRUE
    [] OTHER -> FALSE

\* a || b
Or(a, b) == IF Truthy(a) THEN a ELSE b

\* e.k for a value e that is not null or undefined
Get(e, k) ==
  IF e.t = "object" /\ k \in DOMAIN e.f THEN e.f[k] ELSE Undef

\* e?.k
OptGet(e, k) == IF Nullish(e) THEN Undef ELSE Get(e, k)

(***************************************************************************)
(* Text                                                                    *)
(***************************************************************************)
UpperToLower ==
  [c \in {"A", "B", "C", "D", "E", "U"} |->
     CASE c = "A" -> "a" [] c = "B" -> "b" [] c = "C" -> "c"
       [] c = "D" -> "d" [] c = "E" -> "e" [] c = "U" -> "u"]

LowerChar(c) == IF c \in DOMAIN UpperToLower THEN UpperToLower[c] ELSE c

\* String.prototype.toLowerCase
toLowerCase(s) == [i \in 1..Len(s) |-> LowerChar(s[i])]

\* String.prototype.includes
includes(s, sub) ==
  \E i \in 0..(Len(s) - Len(sub)) :
    \A j \in 1..Len(sub) : s[i + j] = sub[j]

RECURSIVE join(_, _)
\* Array.prototype.join over an array of strings
join(a, sep) ==
  IF a = <<>> THEN <<>>
  ELSE IF Len(a) = 1 THEN a[1].s
  ELSE a[1].s \o sep \o join(Tail(a), sep)

\* UTF-16 code units of the characters that occur in start values
CharCode ==
  [c \in {"-", "/", "0", "1", "2", "3", "4", "5", "6", "7", "8", "9",
          "b", "d", "t"} |->
     CASE c = "-" -> 45 [] c = "/" -> 47
       [] c = "0" -> 48 [] c = "1" -> 49 [] c = "2" -> 50 [] c = "3" -> 51
       [] c = "4" -> 52 [] c = "5" -> 53 [] c = "6" -> 54 [] c = "7" -> 55
       [] c = "8" -> 56 [] c = "9" -> 57
       [] c = "b" -> 98 [] c = "d" -> 100 [] c = "t" -> 116]

RECURSIVE StrLess(_, _)
\* s < u for two strings: comparison by code units
StrLess(s, u) ==
  IF u = <<>> THEN FALSE
  ELSE IF s = <<>> THEN TRUE
  ELSE IF CharCode[s[1]] < CharCode[u[1]] THEN TRUE
  ELSE IF CharCode[s[1]] > CharCode[u[1]] THEN FALSE
  ELSE StrLess(Tail(s), Tail(u))

\* a < b for two values; the model compares strings only, every other
\* pairing of the values it holds (undefined, NaN) compares false
JsLess(a, b) == a.t = "string" /\ b.t = "string" /\ StrLess(a.s, b.s)

(***************************************************************************)
(* Dates                                                                   *)
(***************************************************************************)
IsDigit(c) == c \in {"0", "1", "2", "3", "4", "5", "6", "7", "8", "9"}

Digit(c) == CharCode[c] - 48

Num2(s, i) == 10 * Digit(s[i]) + Digit(s[i + 1])

Num4(s, i) == 100 * Num2(s, i) + Num2(s, i + 2)

DaysBeforeMonth == <<0, 31, 59, 90, 120, 151, 181, 212, 243, 273, 304, 334>>

\* hours from 2026-01-01T00:00Z to the start of the civil day y-m-d
HoursOf(y, m, d) == ((y - 2026) * 365 + DaysBeforeMonth[m] + (d - 1)) * 24

Invalid == [valid |-> FALSE]

Civil(y, m, d) ==
  IF m \in 1..12 /\ d \in 1..31 /\ y \in 2026..2027
  THEN [valid |-> TRUE, time |-> HoursOf(y, m, d)]
  ELSE Invalid

AllDigits(s, I) == \A i \in I : IsDigit(s[i])

\* new Date(v) for a string v: the forms YYYY-MM-DD and MM/DD/YYYY are
\* parsed, any other text of the model gives an invalid date
DateParse(v) ==
  IF v.t # "string" \/ Len(v.s) # 10 THEN Invalid
  ELSE IF v.s[5] = "-" /\ v.s[8] = "-" /\ AllDigits(v.s, {1, 2, 3, 4, 6, 7, 9, 10})
    THEN Civil(Num4(v.s, 1), Num2(v.s, 6), Num2(v.s, 9))
  ELSE IF v.s[3] = "/" /\ v.s[6] = "/" /\ AllDigits(v.s, {1, 2, 4, 5, 7, 8, 9, 10})
    THEN Civil(Num4(v.s, 7), Num2(v.s, 1), Num2(v.s, 4))
  ELSE Invalid

\* d.getFullYear() and d.getMonth() + 1 of a valid date
YearOf(time) == 2026 + (time \div 24) \div 365

MonthOf(time) ==
  LET doy == (time \div 24) % 365
  IN  CHOOSE m \in 1..12 :
        /\ DaysBeforeMonth[m] <= doy
        /\ \A k \in 1..12 : DaysBeforeMonth[k] <= doy => k <= m

\* the key of an invalid date, "NaN-NaN"
NaNKey == [year |-> -1, month |-> -1]

\* monthKey(iso): the pair behind the text `${year}-${month}`
monthKey(iso) ==
  LET d == DateParse(iso)
  IN  IF d.valid THEN [year |-> YearOf(d.time), month |-> MonthOf(d.time)]
      ELSE NaNKey

(***************************************************************************)
(* Helpers of the page                                                     *)
(***************************************************************************)
\* ev.k for a normalized event: a key it does not have reads undefined
EvGet(ev, k) == IF k \in DOMAIN ev THEN ev[k] ELSE Undef

\* by('start', 1)(a, b)
by(a, b) == IF JsLess(b.start, a.start) THEN 1
            ELSE IF JsLess(a.start, b.start) THEN -1 ELSE 0

RECURSIVE Insert(_, _)
\* x placed behind every element that does not compare greater than it
Insert(x, s) ==
  IF s = <<>> THEN <<x>>
  ELSE IF by(s[1], x) > 0 THEN <<x>> \o s
  ELSE <<s[1]>> \o Insert(x, Tail(s))

RECURSIVE sort(_)
\* Array.prototype.sort with by('start', 1): a stable sort
sort(s) ==
  IF s = <<>> THEN <<>>
  ELSE Insert(s[Len(s)], sort(SubSeq(s, 1, Len(s) - 1)))

\* the strings among vals that filter(Boolean) keeps
RECURSIVE filterBoolean(_)
filterBoolean(vals) ==
  IF vals = <<>> THEN <<>>
  ELSE IF Truthy(vals[1]) THEN <<vals[1]>> \o filterBoolean(Tail(vals))
  ELSE filterBoolean(Tail(vals))

\* the text matchesQuery searches
bagOf(ev) ==
  toLowerCase(join(filterBoolean(
    <<EvGet(ev, "title"), EvGet(ev, "city"), EvGet(ev, "state"),
      EvGet(ev, "country"), EvGet(ev, "venue"), EvGet(ev, "description")>>),
    <<" ">>))

matchesQuery(ev, qq) ==
  IF qq = <<>> THEN TRUE
  ELSE includes(bagOf(ev), toLowerCase(qq))

(***************************************************************************)
(* normalizeEvents                                                         *)
(***************************************************************************)
\* Array.isArray(json?.events) ? json.events : []
rawOf(doc) ==
  LET ev == OptGet(doc, "events")
  IN  IF ev.t = "array" THEN ev.a ELSE <<>>

metaOf(doc) == OptGet(doc, "meta")

\* whether v.join(...) throws: only an array has the method
JoinThrows(v) == v.t # "array"

\* json?.meta?.sources
sourcesOf(doc) == OptGet(metaOf(doc), "sources")

\* whether the arrow function of map throws on record e
recordThrows(e, doc) ==
  \/ Nullish(e)
  \/ /\ ~Truthy(Or(Get(e, "source"), Get(e, "provider")))
     /\ ~Nullish(sourcesOf(doc))
     /\ JoinThrows(sourcesOf(doc))

\* json?.meta?.sources?.join(', ')
joinedSources(doc) ==
  IF Nullish(sourcesOf(doc)) THEN Undef
  ELSE Str(join(sourcesOf(doc).a, <<",", " ">>))

resolveTitle(e) ==
  Or(Or(Or(Get(e, "title"), Get(e, "name")), Get(e, "summary")),
     Str(<<"U", "n", "t", "i", "t", "l", "e", "d", " ", "e", "v", "e", "n", "t">>))

resolveUrl(e) == Or(Or(Get(e, "url"), Get(e, "link")), Str(<<"#">>))

\* resolveStart with the first two aliases in the other order
resolveStartSwapped(e) ==
  Or(Or(Or(Or(Get(e, "start"), Get(e, "start_utc")), Get(e, "startDate")),
        Get(e, "start_time")), Get(e, "dtstart"))

resolveStart(e) ==
  Or(Or(Or(Or(Get(e, "start_utc"), Get(e, "start")), Get(e, "startDate")),
        Get(e, "start_time")), Get(e, "dtstart"))

resolveEnd(e) ==
  Or(Or(Or(Or(Get(e, "end_utc"), Get(e, "end")), Get(e, "endDate")),
        Get(e, "end_time")), Get(e, "dtend"))

resolveSource(e, doc) ==
  IF Truthy(Or(Get(e, "source"), Get(e, "provider")))
  THEN Or(Get(e, "source"), Get(e, "provider"))
  ELSE joinedSources(doc)

\* the object the arrow function of map builds for record e
normalizeOne(e, doc) ==
  [title   |-> resolveTitle(e),
   url     |-> resolveUrl(e),
   start   |-> resolveStart(e),
   end     |-> resolveEnd(e),
   city    |-> Or(Or(Get(e, "city"), Get(e, "location_city")), Get(e, "city_name")),
   state   |-> Or(Or(Get(e, "state"), Get(e, "region")), Get(e, "state_code")),
   country |-> Or(Get(e, "country"), Get(e, "country_code")),
   venue   |-> Or(Or(Get(e, "venue"), Get(e, "location")), Get(e, "place")),
   source  |-> resolveSource(e, doc)]

hasStart(ev) == Truthy(ev.start)

\* normalizeEvents(json): the list, or the fact that it threw
normalizeEvents(doc) ==
  LET raw == rawOf(doc)
  IN  IF \E i \in 1..Len(raw) : recordThrows(raw[i], doc)
      THEN [threw |-> TRUE, value |-> <<>>]
      ELSE [threw |-> FALSE,
            value |-> SelectSeq([i \in 1..Len(raw) |-> normalizeOne(raw[i], doc)],
                                hasStart)]

(***************************************************************************)
(* render                                                                  *)
(***************************************************************************)
View(kind, msg, note, groups) ==
  [kind |-> kind, msg |-> msg, note |-> note, groups |-> groups]

Blank == View("blank", "", <<>>, <<>>)

\* renderEmpty(msg, note)
renderEmpty(msg, note) == View("empty", msg, note, <<>>)

\* the view boot's catch puts up
CouldNotLoad ==
  View("error", "Could not load events.", <<>>, <<>>)

\* for (const ev of events) { ... groups.get(key).push(ev) }: a Map keeps
\* its keys in the order of their first insertion
RECURSIVE groupInto(_, _)
groupInto(groups, evs) ==
  IF evs = <<>> THEN groups
  ELSE LET ev == evs[1]
           key == monthKey(ev.start)
       IN  IF \E i \in 1..Len(groups) : groups[i].key = key
           THEN groupInto(
                  [i \in 1..Len(groups) |->
                     IF groups[i].key = key
                     THEN [key |-> key, list |-> Append(groups[i].list, ev)]
                     ELSE groups[i]],
                  Tail(evs))
           ELSE groupInto(Append(groups, [key |-> key, list |-> <<ev>>]), Tail(evs))

\* whether the note of the empty view cannot be computed: a truthy
\* meta.notes without a join method
noteThrows(meta) ==
  LET notes == OptGet(meta, "notes")
  IN  Truthy(notes) /\ JoinThrows(notes)

\* (meta?.notes && meta.notes.join(' ')) || ''
noteOf(meta) ==
  LET notes == OptGet(meta, "notes")
  IN  IF Truthy(notes) THEN join(notes.a, <<" ">>) ELSE <<>>

\* render(events, meta): whether it threw, the array it was given as the
\* call leaves it (sort works in place) and the view it wrote
render(evs, meta) ==
  IF evs = <<>>
  THEN IF noteThrows(meta)
       THEN [threw |-> TRUE, array |-> evs, view |-> Blank]
       ELSE [threw |-> FALSE, array |-> evs,
             view |-> renderEmpty("No upcoming events found.", noteOf(meta))]
  ELSE [threw |-> FALSE, array |-> sort(evs),
        view |-> View("groups", "", <<>>, groupInto(<<>>, sort(evs)))]

(***************************************************************************)
(* Input documents                                                         *)
(***************************************************************************)
Ab == Str(<<"A", "b">>)

BSpaceA == Str(<<"B", " ", "a">>)

Cd == Str(<<"c", "d">>)

Ed == Str(<<"E", "d">>)

Empty == Str(<<>>)

Jan10 == Str(<<"2", "0", "2", "7", "-", "0", "1", "-", "1", "0">>)

Mar02 == Str(<<"2", "0", "2", "7", "-", "0", "3", "-", "0", "2">>)

Mar15US == Str(<<"0", "3", "/", "1", "5", "/", "2", "0", "2", "7">>)

Dec01 == Str(<<"2", "0", "2", "6", "-", "1", "2", "-", "0", "1">>)

Tbd == Str(<<"t", "b", "d">>)

\* the elements an events list is drawn from
RawItems ==
  { Null,
    Num(7),
    Obj([title |-> Ab, start |-> Jan10]),
    Obj([title |-> Ab, start |-> Mar02, end |-> Dec01]),
    Obj([name |-> BSpaceA, dtstart |-> Mar15US, city |-> Ed]),
    Obj([start |-> Mar02, description |-> Cd]),
    Obj([title |-> Ab, start |-> Dec01, end |-> Mar02]),
    Obj([title |-> Ab, start |-> Tbd]),
    Obj([title |-> Ab]),
    Obj([title |-> Ab, start_utc |-> Mar02, start |-> Jan10]),
    Obj([title |-> Ab, start_utc |-> Empty, start |-> Jan10]),
    Obj([start_utc |-> Null, start |-> Mar02, source |-> Cd]),
    Obj([title |-> Ab, summary |-> Cd, start |-> Jan10]) }

RawLists == UNION { [1..n -> RawItems] : n \in 0..MaxEvents }

\* the meta blocks: absent, well formed, sources not a list, notes not a list
MetaValues ==
  { Undef,
    Obj([sources |-> Arr(<<Ab, Cd>>), notes |-> Arr(<<Ed>>)]),
    Obj([sources |-> Ab]),
    Obj([notes |-> Ab]) }

Unavailable == [t |-> "unavailable"]

WithMeta(f, m) == IF m = Undef THEN Obj(f) ELSE Obj([meta |-> m] @@ f)

\* what fetchFirst gives: no document, null, a document without events,
\* one whose events is not a list, and the documents with an events list
Documents ==
  {Unavailable, Null}
    \cup { WithMeta(<<>>, m) : m \in MetaValues }
    \cup { WithMeta([events |-> Ab], m) : m \in MetaValues }
    \cup { WithMeta([events |-> Arr(l)], m) : l \in RawLists, m \in MetaValues }

\* the instants boot may read from the clock: the start of 2027-01-10
\* and one hour later
NowValues == {HoursOf(2027, 1, 10), HoursOf(2027, 1, 10) + 1}

\* the values typed into the search box
QueryValues ==
  { <<>>, <<" ">>, <<"A", "B">>, <<"c", "d">>, <<"u", "n">> }

(***************************************************************************)
(* The page                                                                *)
(***************************************************************************)
\* isUpcoming with the boundary instant left out
isUpcomingStrict(e, n) ==
  LET d == DateParse(e.start)
  IN  d.valid /\ d.time > n

\* new Date(e.start).getTime() >= now
isUpcoming(e, n) ==
  LET d == DateParse(e.start)
  IN  d.valid /\ d.time >= n

filterUpcoming(evs, n) == SelectSeq(evs, LAMBDA e : isUpcoming(e, n))

filterByQuery(evs, qq) == SelectSeq(evs, LAMBDA e : matchesQuery(e, qq))

Init ==
  /\ json \in Documents
  /\ now = 0
  /\ pc = "boot"
  /\ err = "none"
  /\ controls = FALSE
  /\ normalized = <<>>
  /\ produced = <<>>
  /\ events = <<>>
  /\ q = <<>>
  /\ view = Blank

\* boot when fetchFirst or normalizeEvents throws: the catch logs the error
BootFails ==
  /\ pc = "boot"
  /\ json = Unavailable \/ normalizeEvents(json).threw
  /\ pc' = "idle"
  /\ err' = IF json = Unavailable THEN "Error" ELSE "TypeError"
  /\ view' = CouldNotLoad
  /\ UNCHANGED <<json, now, controls, normalized, produced, events, q>>

\* boot past normalizeEvents: the clock is read, past events are dropped,
\* the controls are registered and the working set is rendered
BootLoads ==
  /\ pc = "boot"
  /\ json # Unavailable
  /\ ~normalizeEvents(json).threw
  /\ \E n \in NowValues :
       LET norm == normalizeEvents(json).value
           kept == filterUpcoming(norm, n)
           r    == render(kept, metaOf(json))
       IN  /\ now' = n
           /\ normalized' = norm
           /\ produced' = kept
           /\ controls' = TRUE
           /\ events' = r.array
           /\ err' = IF r.threw THEN "TypeError" ELSE "none"
           /\ view' = IF r.threw THEN CouldNotLoad ELSE r.view
  /\ pc' = "idle"
  /\ UNCHANGED <<json, q>>

Boot == BootFails \/ BootLoads

\* the callback given to renderControls; a render that throws leaves the
\* events element as it was
onFilter(v) ==
  LET filtered == filterByQuery(events, v)
      r        == render(filtered, metaOf(json))
  IN  /\ view' = IF r.threw THEN view ELSE r.view
      /\ UNCHANGED <<json, now, pc, err, controls, normalized, produced, events>>

\* the input listener of the search box
OnInput ==
  /\ controls
  /\ \E v \in QueryValues :
       /\ q' = v
       /\ onFilter(v)

\* the click handler of the Clear button
OnClear ==
  /\ controls
  /\ q' = <<>>
  /\ onFilter(<<>>)

Next == Boot \/ OnInput \/ OnClear

Spec == Init /\ [][Next]_vars

(***************************************************************************)
(* Properties                                                              *)
(***************************************************************************)
Member(x, s) == \E i \in 1..Len(s) : s[i] = x

\* each raw record of the document beside the event built from it
Traced ==
  [i \in 1..Len(rawOf(json)) |->
     [raw |-> rawOf(json)[i], ev |-> normalizeOne(rawOf(json)[i], json)]]

EventsOf(pairs) == [i \in 1..Len(pairs) |-> pairs[i].ev]

\* the pairs whose event is in the working set
TracedWorking ==
  SelectSeq(Traced, LAMBDA p : hasStart(p.ev) /\ isUpcoming(p.ev, now))

metaUsable == ~noteThrows(metaOf(json))

\* C1: a document whose events all fall to a filter shows something else
\* than the same document without events would show ("no matches" is not
\* "no data yet").
C1_EmptyStatesDistinct ==
  (controls /\ err = "none" /\ normalized # <<>> /\ view.kind = "empty")
    => view # render(<<>>, metaOf(json)).view

StartsAtOrAfterNow(e) ==
  DateParse(e.start).valid /\ ~(DateParse(e.start).time < now)

\* C2: the temporal filter keeps exactly the events whose start instant is
\* not before now, in their order: a start equal to now is kept, an earlier
\* one is dropped, a later one is kept, and two events with the same start
\* share their fate whatever their end.
C2_TemporalFilter ==
  controls =>
    /\ produced = SelectSeq(normalized, StartsAtOrAfterNow)
    /\ \A i \in 1..Len(normalized) :
         LET e == normalized[i]
             d == DateParse(e.start)
         IN  /\ (d.valid /\ d.time = now) => Member(e, produced)
             /\ (d.valid /\ d.time < now) => ~Member(e, produced)
             /\ (d.valid /\ d.time > now) => Member(e, produced)
             /\ \A j \in 1..Len(normalized) :
                  normalized[j].start = e.start
                    => (Member(normalized[j], produced) <=> Member(e, produced))

\* an event starting exactly at now is kept while one that started before
\* now and ends after it is dropped
C2_Witness ==
  /\ controls
  /\ \E i \in 1..Len(normalized) :
       /\ DateParse(normalized[i].start).valid
       /\ DateParse(normalized[i].start).time = now
       /\ Member(normalized[i], produced)
  /\ \E i \in 1..Len(normalized) :
       /\ DateParse(normalized[i].start).valid
       /\ DateParse(normalized[i].start).time < now
       /\ DateParse(normalized[i].end).valid
       /\ DateParse(normalized[i].end).time > now
       /\ ~Member(normalized[i], produced)

IsBlankQuery(qq) == \A i \in 1..Len(qq) : qq[i] = " "

\* the text the claim searches for a raw record: absent fields add nothing
ClaimedText(r) ==
  toLowerCase(join(filterBoolean(
    <<Or(Or(Get(r, "title"), Get(r, "name")), Get(r, "summary")),
      Or(Or(Get(r, "city"), Get(r, "location_city")), Get(r, "city_name")),
      Or(Or(Get(r, "state"), Get(r, "region")), Get(r, "state_code")),
      Or(Get(r, "country"), Get(r, "country_code")),
      Or(Or(Get(r, "venue"), Get(r, "location")), Get(r, "place")),
      Or(Get(r, "description"), Get(r, "summary"))>>),
    <<" ">>))

\* C3: under a query that is not blank the events shown are exactly those of the
\* working set whose record's title, city, state, country, venue and
\* description, lower-cased and joined by spaces, contain the lower-cased
\* query.
C3_TextFilter ==
  (controls /\ metaUsable /\ ~IsBlankQuery(q))
    => view = render(EventsOf(SelectSeq(TracedWorking,
                       LAMBDA p : includes(ClaimedText(p.raw), toLowerCase(q)))),
                     metaOf(json)).view

\* C4: an empty or whitespace-only query keeps every event of the working
\* set, in order.
C4_BlankQueryMatchesAll ==
  (controls /\ metaUsable /\ IsBlankQuery(q))
    => /\ filterByQuery(events, q) = events
       /\ view = render(events, metaOf(json)).view

KeyBefore(k1, k2) ==
  k1.year < k2.year \/ (k1.year = k2.year /\ k1.month < k2.month)

\* C5: the groups shown are in strictly ascending order of (year, month)
\* and the events of each group are in ascending order of start instant.
C5_GroupsChronological ==
  view.kind = "groups" =>
    /\ \A i, j \in 1..Len(view.groups) :
         i < j => KeyBefore(view.groups[i].key, view.groups[j].key)
    /\ \A g \in 1..Len(view.groups) :
         \A i, j \in 1..Len(view.groups[g].list) :
           i < j => DateParse(view.groups[g].list[i].start).time
                      <= DateParse(view.groups[g].list[j].start).time

\* C6: the normalizer's output is the records whose resolved start is
\* present and parseable, in input order.
C6_NormalizerKeepsParseable ==
  controls =>
    normalized = EventsOf(SelectSeq(Traced, LAMBDA p : DateParse(p.ev.start).valid))

StartAliases == <<"start_utc", "start", "startDate", "start_time", "dtstart">>

EndAliases == <<"end_utc", "end", "endDate", "end_time", "dtend">>

\* the value of the first alias of r that is truthy, or else ifNone
FirstTruthy(r, aliases, ifNone) ==
  IF \E i \in 1..Len(aliases) : Truthy(Get(r, aliases[i]))
  THEN Get(r, aliases[CHOOSE i \in 1..Len(aliases) :
                       /\ Truthy(Get(r, aliases[i]))
                       /\ \A j \in 1..(i - 1) : ~Truthy(Get(r, aliases[j]))])
  ELSE ifNone

\* the value of the last alias of r
LastOf(r, aliases) == Get(r, aliases[Len(aliases)])

\* the value of the first alias of r that is present, or else undefined
FirstPresent(r, aliases) ==
  IF \E i \in 1..Len(aliases) : ~Nullish(Get(r, aliases[i]))
  THEN Get(r, aliases[CHOOSE i \in 1..Len(aliases) :
                       /\ ~Nullish(Get(r, aliases[i]))
                       /\ \A j \in 1..(i - 1) : Nullish(Get(r, aliases[j]))])
  ELSE Undef

\* the raw records that give an event, in input order
KeptRaw ==
  SelectSeq(rawOf(json),
            LAMBDA r : Truthy(FirstTruthy(r, StartAliases, LastOf(r, StartAliases))))

\* C7 as stated: in a document none of whose records is dropped, a record
\* holding both start_utc and start gets the value of start_utc as its
\* start, and every start is the first alias present on the record.
C7_FirstPresentAlias ==
  (controls /\ Len(normalized) = Len(rawOf(json))) =>
    \A i \in 1..Len(normalized) :
      LET r == rawOf(json)[i]
      IN  /\ (~Nullish(Get(r, "start_utc")) /\ ~Nullish(Get(r, "start")))
               => normalized[i].start = Get(r, "start_utc")
          /\ normalized[i].start = FirstPresent(r, StartAliases)

\* C7 as amended: every field of an event is the value of the first alias,
\* in the field's order, that is truthy on the record (the field's default
\* or the last alias's value when none is); a record whose start_utc is
\* truthy gets exactly that value as its start.
C7_FirstTruthyAlias ==
  controls =>
    /\ Len(normalized) = Len(KeptRaw)
    /\ \A i \in 1..Len(normalized) :
         LET r == KeptRaw[i]
             e == normalized[i]
         IN  /\ Truthy(Get(r, "start_utc")) => e.start = Get(r, "start_utc")
             /\ e.start = FirstTruthy(r, StartAliases, LastOf(r, StartAliases))
             /\ e.end = FirstTruthy(r, EndAliases, LastOf(r, EndAliases))
             /\ e.title = FirstTruthy(r, <<"title", "name", "summary">>,
                             Str(<<"U", "n", "t", "i", "t", "l", "e", "d", " ",
                                   "e", "v", "e", "n", "t">>))
             /\ e.url = FirstTruthy(r, <<"url", "link">>, Str(<<"#">>))
             /\ e.city = FirstTruthy(r, <<"city", "location_city", "city_name">>,
                            Get(r, "city_name"))
             /\ e.state = FirstTruthy(r, <<"state", "region", "state_code">>,
                             Get(r, "state_code"))
             /\ e.country = FirstTruthy(r, <<"country", "country_code">>,
                               Get(r, "country_code"))
             /\ e.venue = FirstTruthy(r, <<"venue", "location", "place">>,
                             Get(r, "place"))
             /\ e.source = FirstTruthy(r, <<"source", "provider">>,
                              joinedSources(json))

\* a record with both start_utc and start truthy, and one whose start_utc
\* is the empty string, have each given an event
C7_Witness ==
  /\ controls
  /\ Len(normalized) = 2
  /\ Len(rawOf(json)) = 2
  /\ \E i \in 1..2 :
       /\ Truthy(Get(rawOf(json)[i], "start_utc"))
       /\ Truthy(Get(rawOf(json)[i], "start"))
       /\ normalized[i].start = Get(rawOf(json)[i], "start_utc")
  /\ \E i \in 1..2 :
       /\ Get(rawOf(json)[i], "start_utc") = Empty
       /\ normalized[i].start = Get(rawOf(json)[i], "start")

\* C8: the groups shown are those of a fresh filter, sort and group of the
\* working set under the query now in the search box.
C8_ViewIsFreshRun ==
  controls =>
    view.groups = groupInto(<<>>, sort(filterByQuery(events, q)))

\* C9: normalizeEvents does not throw, whatever the document holds.
C9_NormalizerNeverThrows ==
  (pc = "idle" /\ json # Unavailable) => (controls \/ err # "TypeError")

\* C10: the working set stays as the temporal filter produced it.
C10_WorkingSetUnchanged ==
  controls => events = produced

====
